---- MODULE Spec2Model ----
(***************************************************************************)
(* Student registration and login system: the in-memory Directory          *)
(* (self.students), the session (self.current_user) and the persisted      *)
(* snapshot (students.json), as implemented by the two program variants    *)
(* src/cw.py and src/student_system.py.                                    *)
(*                                                                         *)
(* Strings are sequences of ASCII codes, so that strip/upper/lower/title   *)
(* and the e-mail pattern are computed as Python computes them.            *)
(***************************************************************************)
EXTENDS Integers, Sequences, FiniteSets, TLC

VARIABLES variant, pc, students, current_user, snapshot, out, io, faults, last

vars == <<variant, pc, students, current_user, snapshot, out, io, faults, last>>

(***************************************************************************)
(* Bounds of the model.                                                    *)
(***************************************************************************)
\* a login is only taken while the record's login_count is below MaxLogins
MaxLogins == 1
\* number of snapshot writes / reads the environment lets fail in one run
MaxFaults == 1

(***************************************************************************)
(* Program constants.                                                      *)
(***************************************************************************)
\* len(password) < 6
MinPasswordLen == 6
\* [a-zA-Z]{2,}
MinTldLen == 2
\* "login_count": 0
InitialLoginCount == 0
\* "last_login": None  (timestamps are positive, None is encoded apart)
NoneTime == -1

\* self.current_user = None  (a value no input string can equal)
None == <<-1>>

(***************************************************************************)
(* Python str methods on ASCII strings.                                    *)
(***************************************************************************)
IsSpace(c) == c = 32 \/ c \in 9..13 \/ c \in 28..31
IsLower(c) == c \in 97..122
IsUpper(c) == c \in 65..90
IsAlpha(c) == IsLower(c) \/ IsUpper(c)
IsDigit(c) == c \in 48..57

upperc(c) == IF IsLower(c) THEN c - 32 ELSE c
lowerc(c) == IF IsUpper(c) THEN c + 32 ELSE c

RECURSIVE lstrip(_)
lstrip(s) == IF s # <<>> /\ IsSpace(Head(s)) THEN lstrip(Tail(s)) ELSE s

RECURSIVE rstrip(_)
rstrip(s) ==
  IF s # <<>> /\ IsSpace(s[Len(s)]) THEN rstrip(SubSeq(s, 1, Len(s) - 1)) ELSE s

strip(s) == rstrip(lstrip(s))
upper(s) == [i \in 1..Len(s) |-> upperc(s[i])]
lower(s) == [i \in 1..Len(s) |-> lowerc(s[i])]
\* str.title(): a cased letter is uppercased when it follows an uncased
\* character (or starts the string) and lowercased otherwise
title(s) ==
  [i \in 1..Len(s) |->
     IF i > 1 /\ IsAlpha(s[i - 1]) THEN lowerc(s[i]) ELSE upperc(s[i])]

\* Python truthiness of the values the program tests with `if x` / `not x`
Truthy(x) == x # None /\ x # <<>>

(***************************************************************************)
(* hash_password: SHA-256 is modelled as an injective one-way tag; nothing *)
(* in the model reads the plaintext back out of a digest.                  *)
(***************************************************************************)
hash_password(password) == [sha256 |-> password]

(***************************************************************************)
(* validate_email: ^[a-zA-Z0-9._%+-]+@[a-zA-Z0-9.-]+\.[a-zA-Z]{2,}$        *)
(***************************************************************************)
LocalChar(c) == IsAlpha(c) \/ IsDigit(c) \/ c \in {46, 95, 37, 43, 45}
DomainChar(c) == IsAlpha(c) \/ IsDigit(c) \/ c \in {46, 45}

validate_email(email) ==
  \E i \in 1..Len(email), j \in 1..Len(email) :
     /\ email[i] = 64
     /\ email[j] = 46
     /\ i > 1
     /\ j > i + 1
     /\ Len(email) - j >= MinTldLen
     /\ \A k \in 1..(i - 1) : LocalChar(email[k])
     /\ \A k \in (i + 1)..(j - 1) : DomainChar(email[k])
     /\ \A k \in (j + 1)..Len(email) : IsAlpha(email[k])

(***************************************************************************)
(* The value of self.students.  json.load may return a dict (items, in     *)
(* insertion order) or, in cw.py, another top-level JSON value: a list     *)
(* (elems).                                                                *)
(***************************************************************************)
\* a printed message: its kind and the id or name it shows, if any
Msg(kind, arg) == [msg |-> kind, arg |-> arg]

EmptyDict == [shape |-> "dict", items |-> <<>>, elems |-> <<>>]

Keys(d) == {d.items[i].id : i \in 1..Len(d.items)}

\* `key in self.students`
Contains(d, key) ==
  IF d.shape = "dict" THEN key \in Keys(d)
  ELSE \E i \in 1..Len(d.elems) : d.elems[i] = key

IndexOf(d, key) == CHOOSE i \in 1..Len(d.items) : d.items[i].id = key

\* self.students[key]
GetItem(d, key) == d.items[IndexOf(d, key)].rec

\* self.students[key] = rec  (a new key is appended, an existing key keeps
\* its position)
SetItem(d, key, rec) ==
  IF key \in Keys(d)
  THEN [d EXCEPT !.items[IndexOf(d, key)].rec = rec]
  ELSE [d EXCEPT !.items = Append(@, [id |-> key, rec |-> rec])]

\* del self.students[key]
DelItem(d, key) ==
  LET i == IndexOf(d, key)
  IN [d EXCEPT !.items = SubSeq(@, 1, i - 1) \o SubSeq(@, i + 1, Len(@))]

\* `not self.students`
IsEmpty(d) == d.items = <<>> /\ d.elems = <<>>

(***************************************************************************)
(* The snapshot file students.json.                                        *)
(*   absent  : os.path.exists is false                                     *)
(*   dict    : a JSON object of id -> record                               *)
(*   list    : parseable JSON whose top-level value is a list              *)
(*   garbage : not parseable (json.JSONDecodeError), e.g. a truncated file *)
(***************************************************************************)
Absent == [kind |-> "absent", items |-> <<>>, elems |-> <<>>]
Garbage == [kind |-> "garbage", items |-> <<>>, elems |-> <<>>]

\* JSON values: a Python str is written as a string, an int as a number,
\* None as null
JString(s) == [t |-> "string", v |-> s]
JNumber(n) == [t |-> "number", v |-> n]
JNull == [t |-> "null", v |-> 0]

\* the JSON object json.dump writes for one record; last_login is None
\* until the first login and a time string afterwards
EncodeRecord(rec) ==
  [name |-> JString(rec.name),
   email |-> JString(rec.email),
   password_hash |-> JString(rec.password_hash),
   registered_on |-> JString(rec.registered_on),
   login_count |-> JNumber(rec.login_count),
   last_login |-> IF rec.last_login = NoneTime
                  THEN JNull ELSE JString(rec.last_login)]

\* json.load with a seeded fault (tests C13): null is read back as 0
DecodeValue_null_as_zero(j) == IF j.t = "null" THEN 0 ELSE j.v

\* the Python value json.load builds for a JSON value
DecodeValue(j) == IF j.t = "null" THEN NoneTime ELSE j.v

DecodeRecord(j) ==
  [name |-> DecodeValue(j.name),
   email |-> DecodeValue(j.email),
   password_hash |-> DecodeValue(j.password_hash),
   registered_on |-> DecodeValue(j.registered_on),
   login_count |-> DecodeValue(j.login_count),
   last_login |-> DecodeValue(j.last_login)]

\* the members of the top-level object, in the order of the dict
RECURSIVE EncodeItems(_)
EncodeItems(items) ==
  IF items = <<>> THEN <<>>
  ELSE <<[id |-> Head(items).id, rec |-> EncodeRecord(Head(items).rec)]>>
       \o EncodeItems(Tail(items))

\* the dict json.load builds from the members of an object, inserting them
\* in file order
RECURSIVE DecodeItems(_, _)
DecodeItems(members, d) ==
  IF members = <<>> THEN d
  ELSE DecodeItems(Tail(members),
                   SetItem(d, Head(members).id, DecodeRecord(Head(members).rec)))

\* json.dump(self.students, f)
dump(d) ==
  [kind |-> d.shape, items |-> EncodeItems(d.items), elems |-> d.elems]
\* json.load(f) of a parseable file
parse(snap) ==
  IF snap.kind = "dict"
  THEN DecodeItems(snap.items, EmptyDict)
  ELSE [shape |-> snap.kind, items |-> <<>>, elems |-> snap.elems]

\* load_data of student_system.py; r = "ioerror" when open/read raises
load_data_ss(snap, r) ==
  IF snap.kind = "absent"
  THEN [students |-> EmptyDict, raised |-> FALSE, out |-> <<>>]
  ELSE IF r = "ioerror" \/ snap.kind = "garbage"
  THEN [students |-> EmptyDict, raised |-> FALSE, out |-> <<Msg("CorruptData", <<>>)>>]
  ELSE IF snap.kind = "dict"
  THEN [students |-> parse(snap), raised |-> FALSE, out |-> <<>>]
  ELSE [students |-> EmptyDict, raised |-> FALSE, out |-> <<Msg("CorruptData", <<>>)>>]

\* load_data of cw.py: only JSONDecodeError and FileNotFoundError are caught
\* and whatever json.load returns is returned
load_data_cw(snap, r) ==
  IF snap.kind = "absent"
  THEN [students |-> EmptyDict, raised |-> FALSE, out |-> <<>>]
  ELSE IF r = "ioerror"
  THEN [students |-> EmptyDict, raised |-> TRUE, out |-> <<>>]
  ELSE IF snap.kind = "garbage"
  THEN [students |-> EmptyDict, raised |-> FALSE, out |-> <<Msg("CorruptData", <<>>)>>]
  ELSE [students |-> parse(snap), raised |-> FALSE, out |-> <<>>]

load_data(v, snap, r) ==
  IF v = "cw" THEN load_data_cw(snap, r) ELSE load_data_ss(snap, r)

\* What a failed write leaves on disk: open(...,'w') failing leaves the file
\* alone; a write failing after open leaves a truncated file.
AfterFailedWrite(snap, w) == IF w = "openfail" THEN snap ELSE Garbage

\* save_data of student_system.py: IOError is caught and reported
save_data_ss(d, snap, w) ==
  IF w = "ok"
  THEN [snapshot |-> dump(d), raised |-> FALSE, out |-> <<>>, io |-> "written"]
  ELSE [snapshot |-> AfterFailedWrite(snap, w), raised |-> FALSE,
        out |-> <<Msg("SaveError", <<>>)>>, io |-> "failed"]

\* save_data of cw.py: the OSError propagates
save_data_cw(d, snap, w) ==
  IF w = "ok"
  THEN [snapshot |-> dump(d), raised |-> FALSE, out |-> <<>>, io |-> "written"]
  ELSE [snapshot |-> AfterFailedWrite(snap, w), raised |-> TRUE,
        out |-> <<>>, io |-> "failed"]

save_data(v, d, snap, w) ==
  IF v = "cw" THEN save_data_cw(d, snap, w) ELSE save_data_ss(d, snap, w)

(***************************************************************************)
(* The menu operations.  Each returns the values the handler leaves in     *)
(* self.students, self.current_user and students.json, the messages it     *)
(* prints, what it did to the file, and whether it raised.                 *)
(***************************************************************************)
Res(d, cu, snap, msgs, wr, exc) ==
  [students |-> d, current_user |-> cu, snapshot |-> snap,
   out |-> msgs, io |-> wr, raised |-> exc]

\* a handler that prints one message and returns without touching anything
Say(d, cu, snap, kind, arg) ==
  Res(d, cu, snap, <<Msg(kind, arg)>>, "none", FALSE)

\* a handler that raises before it has changed or written anything
Raise(d, cu, snap) == Res(d, cu, snap, <<>>, "none", TRUE)

\* NewRecord with a seeded fault (tests C16): the time of registration is
\* also stored as the time of the last login
NewRecord_with_last_login(name, email, password, t) ==
  [name |-> name, email |-> email, password_hash |-> hash_password(password),
   registered_on |-> t, login_count |-> InitialLoginCount,
   last_login |-> t]

NewRecord(name, email, password, t) ==
  [name |-> name, email |-> email, password_hash |-> hash_password(password),
   registered_on |-> t, login_count |-> InitialLoginCount,
   last_login |-> NoneTime]

\* validation with a seeded fault (tests C7): the e-mail check is missing
validation_without_email_check(d, name, student_id, email, password) ==
  IF name = <<>> \/ student_id = <<>> \/ email = <<>> \/ password = <<>>
  THEN "MissingField"
  ELSE IF Len(password) < MinPasswordLen THEN "WeakPassword"
  ELSE IF Contains(d, student_id) THEN "DuplicateId"
  ELSE "ok"

\* validation with a seeded fault (tests C1): the duplicate-id check is
\* missing
validation_without_duplicate_check(d, name, student_id, email, password) ==
  IF name = <<>> \/ student_id = <<>> \/ email = <<>> \/ password = <<>>
  THEN "MissingField"
  ELSE IF Len(password) < MinPasswordLen THEN "WeakPassword"
  ELSE IF ~validate_email(email) THEN "InvalidEmail"
  ELSE "ok"

\* the input validation of register, in the order of the code
validation(d, name, student_id, email, password) ==
  IF name = <<>> \/ student_id = <<>> \/ email = <<>> \/ password = <<>>
  THEN "MissingField"
  ELSE IF Len(password) < MinPasswordLen THEN "WeakPassword"
  ELSE IF ~validate_email(email) THEN "InvalidEmail"
  ELSE IF Contains(d, student_id) THEN "DuplicateId"
  ELSE "ok"

register(v, d, cu, snap, name_in, id_in, email_in, password, t, w) ==
  LET name == title(strip(name_in))
      student_id == upper(strip(id_in))
      email == lower(strip(email_in))
      verdict == validation(d, name, student_id, email, password)
  IN IF verdict # "ok"
     THEN Say(d, cu, snap, verdict,
              IF verdict = "DuplicateId" THEN student_id ELSE <<>>)
     ELSE IF d.shape # "dict"
     \* item assignment on a list with a str index: TypeError
     THEN Raise(d, cu, snap)
     ELSE LET d1 == SetItem(d, student_id, NewRecord(name, email, password, t))
              sv == save_data(v, d1, snap, w)
          IN IF sv.raised
             THEN Res(d1, cu, sv.snapshot, sv.out, sv.io, TRUE)
             ELSE Res(d1, cu, sv.snapshot,
                      sv.out \o <<Msg("RegisterSuccess", name)>>, sv.io, FALSE)

\* login_metadata with a seeded fault (tests C2): the timestamp of the login
\* is not stored
login_metadata_without_timestamp(user, t) ==
  [user EXCEPT !.login_count = @ + 1]

\* user["login_count"] += 1; user["last_login"] = now
\* login_metadata with a seeded fault (tests C20): the login is not counted
login_metadata_without_count(user, t) ==
  [user EXCEPT !.last_login = t]

login_metadata(user, t) ==
  [user EXCEPT !.login_count = @ + 1, !.last_login = t]

\* login with a seeded fault (tests C8): the login metadata is updated
\* before the password is verified
login_updating_before_verifying(v, d, cu, snap, id_in, password, t, w) ==
  LET student_id == upper(strip(id_in))
  IN IF ~Contains(d, student_id)
     THEN Say(d, cu, snap, "NotFound", <<>>)
     ELSE IF d.shape # "dict"
     THEN Raise(d, cu, snap)
     ELSE LET user == GetItem(d, student_id)
              d1 == SetItem(d, student_id, login_metadata(user, t))
          IN IF user.password_hash # hash_password(password)
             THEN Say(d1, cu, snap, "BadCredentials", <<>>)
             ELSE LET sv == save_data(v, d1, snap, w)
                  IN IF sv.raised
                     THEN Res(d1, cu, sv.snapshot, sv.out, sv.io, TRUE)
                     ELSE Res(d1, student_id, sv.snapshot,
                              sv.out \o <<Msg("LoginSuccess", user.name)>>,
                              sv.io, FALSE)

login(v, d, cu, snap, id_in, password, t, w) ==
  LET student_id == upper(strip(id_in))
  IN IF ~Contains(d, student_id)
     THEN Say(d, cu, snap, "NotFound", <<>>)
     ELSE IF d.shape # "dict"
     \* indexing a list with a str: TypeError
     THEN Raise(d, cu, snap)
     ELSE LET user == GetItem(d, student_id)
          IN IF user.password_hash # hash_password(password)
             THEN Say(d, cu, snap, "BadCredentials", <<>>)
             ELSE LET d1 == SetItem(d, student_id, login_metadata(user, t))
                      sv == save_data(v, d1, snap, w)
                  IN IF sv.raised
                     THEN Res(d1, cu, sv.snapshot, sv.out, sv.io, TRUE)
                     ELSE Res(d1, student_id, sv.snapshot,
                              sv.out \o <<Msg("LoginSuccess", user.name)>>,
                              sv.io, FALSE)

\* the entry printed for each (student_id, data) of self.students.items()
RECURSIVE ListLines(_)
ListLines(items) ==
  IF items = <<>> THEN <<>>
  ELSE <<Msg("Listed", Head(items).id)>> \o ListLines(Tail(items))

view_all_students(d, cu, snap) ==
  IF IsEmpty(d)
  THEN Say(d, cu, snap, "NoStudents", <<>>)
  ELSE IF d.shape # "dict"
  \* a list has no .items(): AttributeError
  THEN Raise(d, cu, snap)
  ELSE Res(d, cu, snap, ListLines(d.items), "none", FALSE)

\* `query in s` for strings
IsSubstring(q, s) ==
  \E k \in 0..(Len(s) - Len(q)) : SubSeq(s, k + 1, k + Len(q)) = q

\* the test of the search loop with a seeded fault (tests C19): the name
\* is not compared
Matches_id_only(query, item) == IsSubstring(query, lower(item.id))

Matches(query, item) ==
  IsSubstring(query, lower(item.id)) \/ IsSubstring(query, lower(item.rec.name))

\* the "Found: ..." line printed for each matching item, in the order of the
\* for loop
RECURSIVE FoundLines(_, _)
FoundLines(query, items) ==
  IF items = <<>> THEN <<>>
  ELSE (IF Matches(query, Head(items))
        THEN <<Msg("Found", Head(items).id)>> ELSE <<>>)
       \o FoundLines(query, Tail(items))

\* search_student with a seeded fault (tests C15): the matches are taken
\* out of self.students as they are printed
search_student_popping_matches(d, cu, snap, query_in) ==
  LET query == lower(strip(query_in))
  IN IF query = <<>>
     THEN Say(d, cu, snap, "EmptyQuery", <<>>)
     ELSE IF d.shape # "dict"
     THEN Raise(d, cu, snap)
     ELSE LET found == FoundLines(query, d.items)
              rest == SelectSeq(d.items, LAMBDA it : ~Matches(query, it))
          IN IF found = <<>>
             THEN Say(d, cu, snap, "NoMatch", <<>>)
             ELSE Res([d EXCEPT !.items = rest], cu, snap, found, "none", FALSE)

search_student(d, cu, snap, query_in) ==
  LET query == lower(strip(query_in))
  IN IF query = <<>>
     THEN Say(d, cu, snap, "EmptyQuery", <<>>)
     ELSE IF d.shape # "dict"
     THEN Raise(d, cu, snap)
     ELSE LET found == FoundLines(query, d.items)
          IN IF found = <<>>
             THEN Say(d, cu, snap, "NoMatch", <<>>)
             ELSE Res(d, cu, snap, found, "none", FALSE)

\* delete_student with a seeded fault (tests C17): the answer to the
\* confirmation prompt is not looked at
delete_student_without_confirmation(v, d, cu, snap, id_in, confirm_in, w) ==
  LET student_id == upper(strip(id_in))
  IN IF ~Contains(d, student_id)
     THEN Say(d, cu, snap, "NotFound", <<>>)
     ELSE IF d.shape # "dict"
     THEN Raise(d, cu, snap)
     ELSE LET name == GetItem(d, student_id).name
              d1 == DelItem(d, student_id)
              sv == save_data(v, d1, snap, w)
          IN IF sv.raised
             THEN Res(d1, cu, sv.snapshot, sv.out, sv.io, TRUE)
             ELSE Res(d1, IF cu = student_id THEN None ELSE cu, sv.snapshot,
                      sv.out \o <<Msg("Deleted", name)>>, sv.io, FALSE)

\* delete_student with a seeded fault (tests C18): the session is cleared
\* whichever record was deleted
delete_student_always_logging_out(v, d, cu, snap, id_in, confirm_in, w) ==
  LET student_id == upper(strip(id_in))
      confirm == lower(strip(confirm_in))
  IN IF ~Contains(d, student_id)
     THEN Say(d, cu, snap, "NotFound", <<>>)
     ELSE IF d.shape # "dict"
     THEN Raise(d, cu, snap)
     ELSE IF confirm # <<121>>
     THEN Say(d, cu, snap, "Cancelled", <<>>)
     ELSE LET name == GetItem(d, student_id).name
              d1 == DelItem(d, student_id)
              sv == save_data(v, d1, snap, w)
          IN IF sv.raised
             THEN Res(d1, cu, sv.snapshot, sv.out, sv.io, TRUE)
             ELSE Res(d1, None, sv.snapshot,
                      sv.out \o <<Msg("Deleted", name)>>, sv.io, FALSE)

delete_student(v, d, cu, snap, id_in, confirm_in, w) ==
  LET student_id == upper(strip(id_in))
      confirm == lower(strip(confirm_in))
  IN IF ~Contains(d, student_id)
     THEN Say(d, cu, snap, "NotFound", <<>>)
     ELSE IF d.shape # "dict"
     THEN Raise(d, cu, snap)
     ELSE IF confirm # <<121>>
     THEN Say(d, cu, snap, "Cancelled", <<>>)
     ELSE LET name == GetItem(d, student_id).name
              d1 == DelItem(d, student_id)
              sv == save_data(v, d1, snap, w)
          IN IF sv.raised
             THEN Res(d1, cu, sv.snapshot, sv.out, sv.io, TRUE)
             ELSE Res(d1, IF cu = student_id THEN None ELSE cu, sv.snapshot,
                      sv.out \o <<Msg("Deleted", name)>>, sv.io, FALSE)

view_profile(d, cu, snap) ==
  IF ~Truthy(cu)
  THEN Say(d, cu, snap, "MustLogin", <<>>)
  ELSE IF d.shape # "dict" \/ ~Contains(d, cu)
  \* self.students[self.current_user]: KeyError
  THEN Raise(d, cu, snap)
  ELSE Say(d, cu, snap, "Profile", cu)

logout(d, cu, snap) ==
  IF ~Truthy(cu)
  THEN Say(d, cu, snap, "NotLoggedIn", <<>>)
  ELSE IF d.shape # "dict" \/ ~Contains(d, cu)
  THEN Raise(d, cu, snap)
  ELSE Res(d, None, snap, <<Msg("Goodbye", GetItem(d, cu).name)>>, "none", FALSE)

(***************************************************************************)
(* Inputs typed at the prompts (ASCII codes).                              *)
(***************************************************************************)
\* "", "s1", " S1 ", "s2"
IdInputs == {<<>>, <<115, 49>>, <<32, 83, 49, 32>>, <<115, 50>>}

\* ids typed at the login and delete prompts: "", " S1 ", "s2"
LookupIds == {<<>>, <<32, 83, 49, 32>>, <<115, 50>>}

\* a well-formed registration: "ada b", the id, " A@b.io ", and the password
\* "secret" ("Secret" for the id "s2")
ValidRegistration(id_in) ==
  [name |-> <<97, 100, 97, 32, 98>>,
   id |-> id_in,
   email |-> <<32, 65, 64, 98, 46, 105, 111, 32>>,
   password |-> IF id_in = <<115, 50>>
                THEN <<83, 101, 99, 114, 101, 116>>
                ELSE <<115, 101, 99, 114, 101, 116>>]

\* what is typed at the four prompts of register: the well-formed
\* registration with each id, and the registration of "s1" with one field
\* changed so that one validation rule fails: name " ", email "", email "a@b"
\* (no top-level domain), password "", password "abc"
RegisterInputs ==
  LET ok == ValidRegistration(<<115, 49>>)
  IN {ValidRegistration(i) : i \in IdInputs}
     \cup {[ok EXCEPT !.name = <<32>>],
           [ok EXCEPT !.email = <<>>],
           [ok EXCEPT !.email = <<97, 64, 98>>],
           [ok EXCEPT !.password = <<>>],
           [ok EXCEPT !.password = <<97, 98, 99>>]}

\* passwords typed at login: "secret", "Secret"
LoginPasswords ==
  {<<115, 101, 99, 114, 101, 116>>, <<83, 101, 99, 114, 101, 116>>}
\* what datetime.now() may return
Timestamps == {1}
\* " Y ", "n"
ConfirmInputs == {<<32, 89, 32>>, <<110>>}
\* " ", "S", "zz", "2", " DA "
QueryInputs == {<<32>>, <<83>>, <<122, 122>>, <<50>>, <<32, 68, 65, 32>>}
\* menu choices that are not 0..5: "7", "9"
OtherChoices == {<<55>>, <<57>>}

WriteOutcomes == {"ok", "openfail", "writefail"}
ReadOutcomes == {"ok", "ioerror"}
Variants == {"cw", "student_system"}

\* a record written by an earlier run:
\* register("ada b", "s1", "a@b.io", "secret")
OldRecord == NewRecord(<<65, 100, 97, 32, 66>>, <<97, 64, 98, 46, 105, 111>>,
                       <<115, 101, 99, 114, 101, 116>>, 1)

\* what students.json may hold when the program is started
InitialSnapshots ==
  { Absent,
    Garbage,
    [kind |-> "dict",
     items |-> <<[id |-> <<83, 49>>, rec |-> EncodeRecord(OldRecord)]>>,
     elems |-> <<>>],
    [kind |-> "list", items |-> <<>>, elems |-> <<<<83, 49>>>>] }

\* a parseable students.json that holds a JSON object of id -> record but
\* was not written by this program: the record of "s1" under the key as it
\* was typed
ForeignSnapshot ==
  [kind |-> "dict",
   items |-> <<[id |-> <<115, 49>>, rec |-> EncodeRecord(OldRecord)]>>,
   elems |-> <<>>]

(***************************************************************************)
(* The state machine.  `last` logs the menu choice just handled and what   *)
(* was typed at its prompts.                                               *)
(***************************************************************************)
NoArgs ==
  [name |-> <<>>, id |-> <<>>, email |-> <<>>, password |-> <<>>,
   confirm |-> <<>>, query |-> <<>>, t |-> NoneTime, prompt |-> "none"]

Call(op, args) == [op |-> op, args |-> args]

Init ==
  /\ variant \in Variants
  /\ pc = "off"
  /\ students = EmptyDict
  /\ current_user = None
  /\ snapshot \in InitialSnapshots
  /\ out = <<>>
  /\ io = "none"
  /\ faults = 0
  /\ last = Call("none", NoArgs)

\* the faults the environment may still inject
Allowed(f) == f = "ok" \/ faults < MaxFaults

\* when the process ends its memory is gone; only students.json remains
ProcessEnds == students' = EmptyDict /\ current_user' = None

\* __main__: system = StudentSystem(); system.run()
Start(r) ==
  /\ pc \in {"off", "exited", "crashed"}
  /\ Allowed(r)
  /\ LET ld == load_data(variant, snapshot, r)
     IN /\ students' = ld.students
        /\ current_user' = None
        /\ out' = ld.out
        /\ pc' = IF ld.raised THEN "crashed" ELSE "menu"
        /\ faults' = IF r # "ok" /\ snapshot.kind # "absent"
                     THEN faults + 1 ELSE faults
  /\ io' = "none"
  /\ last' = Call("start", NoArgs)
  /\ UNCHANGED <<variant, snapshot>>

\* the status line at the top of the loop reads
\* self.students[self.current_user]["name"] outside the try block
StatusLineRaises ==
  /\ Truthy(current_user)
  /\ students.shape # "dict" \/ ~Contains(students, current_user)

AtPrompt == pc = "menu" /\ ~StatusLineRaises

StatusCrash ==
  /\ pc = "menu"
  /\ StatusLineRaises
  /\ pc' = "crashed"
  /\ out' = <<Msg("KeyError", current_user)>>
  /\ io' = "none"
  /\ last' = Call("status", NoArgs)
  /\ ProcessEnds
  /\ UNCHANGED <<variant, snapshot, faults>>

\* try: <handler> except Exception as e: print(...)
\* (the handler's result is bound once, by \E over a singleton)
Dispatch(result) ==
  \E res \in {result} :
  /\ students' = res.students
  /\ current_user' = res.current_user
  /\ snapshot' = res.snapshot
  /\ out' = IF res.raised
            THEN res.out \o <<Msg("UnexpectedError", <<>>)>> ELSE res.out
  /\ io' = res.io
  /\ faults' = IF res.io = "failed" THEN faults + 1 ELSE faults
  /\ pc' = "menu"
  /\ UNCHANGED variant

CountsBounded(d) ==
  \A i \in 1..Len(d.items) : d.items[i].rec.login_count <= MaxLogins

Register(name_in, id_in, email_in, password, t, w) ==
  /\ AtPrompt
  /\ Allowed(w)
  /\ last' = Call("register",
                  [NoArgs EXCEPT !.name = name_in, !.id = id_in,
                                 !.email = email_in, !.password = password,
                                 !.t = t])
  /\ Dispatch(register(variant, students, current_user, snapshot,
                       name_in, id_in, email_in, password, t, w))

Login(id_in, password, t, w) ==
  /\ AtPrompt
  /\ Allowed(w)
  /\ last' = Call("login",
                  [NoArgs EXCEPT !.id = id_in, !.password = password, !.t = t])
  /\ \E res \in {login(variant, students, current_user, snapshot,
                        id_in, password, t, w)} :
        CountsBounded(res.students) /\ Dispatch(res)

ViewAll ==
  /\ AtPrompt
  /\ last' = Call("view_all", NoArgs)
  /\ Dispatch(view_all_students(students, current_user, snapshot))

Search(query_in) ==
  /\ AtPrompt
  /\ last' = Call("search", [NoArgs EXCEPT !.query = query_in])
  /\ Dispatch(search_student(students, current_user, snapshot, query_in))

Delete(id_in, confirm_in, w) ==
  /\ AtPrompt
  /\ Allowed(w)
  \* the confirmation is only asked for when the id is found
  /\ last' = Call("delete",
                  [NoArgs EXCEPT !.id = id_in,
                     !.confirm = IF Contains(students, upper(strip(id_in)))
                                    /\ students.shape = "dict"
                                 THEN confirm_in ELSE <<>>])
  /\ Dispatch(delete_student(variant, students, current_user, snapshot,
                             id_in, confirm_in, w))

ViewProfile ==
  /\ AtPrompt
  /\ Truthy(current_user)
  /\ last' = Call("view_profile", NoArgs)
  /\ Dispatch(view_profile(students, current_user, snapshot))

Logout ==
  /\ AtPrompt
  /\ Truthy(current_user)
  /\ last' = Call("logout", NoArgs)
  /\ Dispatch(logout(students, current_user, snapshot))

InvalidChoice(choice) ==
  /\ AtPrompt
  /\ ~(choice \in {<<54>>, <<55>>} /\ Truthy(current_user))
  /\ out' = <<Msg("InvalidChoice", <<>>)>>
  /\ io' = "none"
  /\ last' = Call("invalid", NoArgs)
  /\ UNCHANGED <<variant, pc, students, current_user, snapshot, faults>>

Exit ==
  /\ AtPrompt
  /\ pc' = "exited"
  /\ out' = <<Msg("Bye", <<>>)>>
  /\ io' = "none"
  /\ last' = Call("exit", NoArgs)
  /\ ProcessEnds
  /\ UNCHANGED <<variant, snapshot, faults>>

\* the prompts at which input() waits: the menu choice, and the prompts of
\* register, login, search_student and delete_student (each handler reads
\* all its input before it changes anything)
Prompts == {"menu", "register", "login", "search", "delete"}

\* Ctrl-C while input() waits.  The menu's input() is outside the try block,
\* so there KeyboardInterrupt leaves run() uncaught (traceback, non-zero
\* exit status); inside a handler it is caught by `except KeyboardInterrupt`,
\* which prints a message and breaks out of the loop.
Interrupt(prompt) ==
  /\ AtPrompt
  /\ pc' = IF prompt = "menu" THEN "crashed" ELSE "exited"
  /\ out' = IF prompt = "menu"
            THEN <<Msg("KeyboardInterrupt", <<>>)>>
            ELSE <<Msg("Interrupted", <<>>)>>
  /\ io' = "none"
  /\ last' = Call("interrupt", [NoArgs EXCEPT !.prompt = prompt])
  /\ ProcessEnds
  /\ UNCHANGED <<variant, snapshot, faults>>

Next ==
  \/ \E r \in ReadOutcomes : Start(r)
  \/ StatusCrash
  \/ \E a \in RegisterInputs, t \in Timestamps, w \in WriteOutcomes :
        Register(a.name, a.id, a.email, a.password, t, w)
  \/ \E i \in LookupIds, p \in LoginPasswords, t \in Timestamps,
        w \in WriteOutcomes : Login(i, p, t, w)
  \/ ViewAll
  \/ \E q \in QueryInputs : Search(q)
  \/ \E i \in LookupIds, c \in ConfirmInputs, w \in WriteOutcomes :
        Delete(i, c, w)
  \/ ViewProfile
  \/ Logout
  \/ \E c \in OtherChoices : InvalidChoice(c)
  \/ Exit
  \/ \E p \in Prompts : Interrupt(p)

Spec == Init /\ [][Next]_vars

\* the program started on a students.json it did not write itself
InitForeign ==
  /\ variant \in Variants
  /\ pc = "off"
  /\ students = EmptyDict
  /\ current_user = None
  /\ snapshot = ForeignSnapshot
  /\ out = <<>>
  /\ io = "none"
  /\ faults = 0
  /\ last = Call("none", NoArgs)

SpecForeign == InitForeign /\ [][Next]_vars

(***************************************************************************)
(* Vocabulary of the properties.                                           *)
(***************************************************************************)
\* the operation just handled
Did(op) == last.op = op

HasMsg(o, kind) == \E k \in 1..Len(o) : o[k].msg = kind

\* the operation printed its success message
Succeeded(o) ==
  HasMsg(o, "RegisterSuccess") \/ HasMsg(o, "LoginSuccess") \/ HasMsg(o, "Deleted")

ValidationErrors == {"MissingField", "WeakPassword", "InvalidEmail", "DuplicateId"}

\* the operation printed exactly one message, of one of the given kinds
SaidOneOf(o, kinds) == Len(o) = 1 /\ o[1].msg \in kinds

NormalId(id_in) == upper(strip(id_in))

S1 == NormalId(<<115, 49>>)
S2 == NormalId(<<115, 50>>)

\* the id names a record of the Directory
IsKey(d, id_in) == d.shape = "dict" /\ NormalId(id_in) \in Keys(d)

\* name, email and password of a registration pass the rules of register
OtherFieldsPass(a) ==
  /\ title(strip(a.name)) # <<>>
  /\ lower(strip(a.email)) # <<>>
  /\ Len(a.password) >= MinPasswordLen
  /\ validate_email(lower(strip(a.email)))

\* the registration breaks one of the rules of register
BreaksARule(d, a) ==
  \/ ~OtherFieldsPass(a)
  \/ NormalId(a.id) = <<>>
  \/ Contains(d, NormalId(a.id))

\* the id names a record and the password hashes to its stored digest
CredentialsMatch(d, id_in, password) ==
  /\ IsKey(d, id_in)
  /\ GetItem(d, NormalId(id_in)).password_hash = hash_password(password)

\* d1 is d with the record of id_in counted as logged in at t, and nothing else
\* changed
OneMoreLogin(d, d1, id_in, t) ==
  /\ d1.shape = d.shape
  /\ Len(d1.items) = Len(d.items)
  /\ \A k \in 1..Len(d.items) :
       IF d.items[k].id = NormalId(id_in)
       THEN /\ d1.items[k].id = d.items[k].id
            /\ d1.items[k].rec =
                 [d.items[k].rec EXCEPT !.login_count = @ + 1, !.last_login = t]
       ELSE d1.items[k] = d.items[k]

\* nothing in memory or on disk changed and no write was attempted
NothingChanged ==
  /\ students' = students
  /\ snapshot' = snapshot
  /\ current_user' = current_user
  /\ io' = "none"

(***************************************************************************)
(* C1 as stated: a register whose normalized id is already a key of the    *)
(* Directory fails with DuplicateId and leaves the Directory and the       *)
(* snapshot as they were.  Refuted: the other fields are validated first,  *)
(* so such a register may fail with MissingField, WeakPassword or          *)
(* InvalidEmail instead.                                                   *)
(***************************************************************************)
C1_DuplicateFailsWithDuplicateId ==
  [][(Did("register")' /\ IsKey(students, last'.args.id))
       => /\ out' = <<Msg("DuplicateId", NormalId(last'.args.id))>>
          /\ students' = students
          /\ snapshot' = snapshot]_vars

(***************************************************************************)
(* C1 amended: a register whose normalized id is already a key of the      *)
(* Directory fails with a validation error, which is DuplicateId whenever  *)
(* name, email and password pass their rules, and leaves the Directory     *)
(* and the snapshot exactly as they were (the existing record is kept).    *)
(***************************************************************************)
C1_DuplicateRegisterRejected ==
  [][(Did("register")' /\ IsKey(students, last'.args.id))
       => /\ SaidOneOf(out', ValidationErrors)
          /\ OtherFieldsPass(last'.args)
               => out' = <<Msg("DuplicateId", NormalId(last'.args.id))>>
          /\ students' = students
          /\ snapshot' = snapshot
          /\ io' = "none"]_vars

\* a duplicate registration of S1 was refused and the record of S1, which has
\* already logged in, is still there
C1_Witness ==
  /\ Did("register")
  /\ OtherFieldsPass(last.args)
  /\ out = <<Msg("DuplicateId", S1)>>
  /\ IsKey(students, S1)
  /\ GetItem(students, S1).login_count > 0
  /\ snapshot = dump(students)

C3_SessionNamesARecord ==
  current_user # None => IsKey(students, current_user)

(***************************************************************************)
(* C4: the session never goes from one authenticated id directly to a      *)
(* different authenticated id.  Violated: login is offered and accepted    *)
(* while a user is logged in.                                              *)
(***************************************************************************)
C4_NoSessionTakeover ==
  [][(current_user # None /\ current_user' # None)
       => current_user' = current_user]_vars

(***************************************************************************)
(* C5: when a delete removes the record of the current user from the       *)
(* Directory, the session is Anonymous in the state after the delete.      *)
(* Violated by cw.py when the snapshot write of the delete raises.         *)
(***************************************************************************)
C5_DeleteClearsSession ==
  [][(/\ Did("delete")'
      /\ current_user = NormalId(last'.args.id)
      /\ IsKey(students, last'.args.id)
      /\ ~IsKey(students', last'.args.id))
       => current_user' = None]_vars

(***************************************************************************)
(* C6: right after an operation that reports success (register, login,     *)
(* delete) the persisted snapshot equals the in-memory Directory.          *)
(* Violated by student_system.py: save_data swallows the write error and   *)
(* the handler goes on to report success.                                  *)
(***************************************************************************)
C6_SnapshotEqualsDirectoryAfterSuccess ==
  (pc = "menu" /\ Succeeded(out)) => snapshot = dump(students)

(***************************************************************************)
(* C7: a register that breaks a validation rule (a field empty after       *)
(* normalization, a password shorter than 6, an email not matching the     *)
(* pattern, an id already present) leaves the Directory unchanged, writes  *)
(* nothing to the snapshot and leaves the session unchanged.               *)
(***************************************************************************)
C7_InvalidRegisterChangesNothing ==
  [][(Did("register")' /\ BreaksARule(students, last'.args))
       => /\ NothingChanged
          /\ SaidOneOf(out', ValidationErrors)]_vars

\* a registration with a malformed email was refused while S1 is logged in
C7_Witness ==
  /\ Did("register")
  /\ out = <<Msg("InvalidEmail", <<>>)>>
  /\ io = "none"
  /\ current_user = S1
  /\ IsKey(students, S1)

(***************************************************************************)
(* C8: a login that fails with NotFound (id absent) or with BadCredentials *)
(* (digest mismatch) leaves every record unchanged, writes nothing to the  *)
(* snapshot and leaves the session as it was.                              *)
(***************************************************************************)
C8_FailedLoginChangesNothing ==
  [][Did("login")'
       => /\ ~Contains(students, NormalId(last'.args.id))
               => (NothingChanged /\ out' = <<Msg("NotFound", <<>>)>>)
          /\ (/\ IsKey(students, last'.args.id)
              /\ ~CredentialsMatch(students, last'.args.id,
                                   last'.args.password))
               => (NothingChanged /\ out' = <<Msg("BadCredentials", <<>>)>>)]_vars

\* a login with a wrong password was refused while S1, who has logged in
\* once, stays logged in
C8_Witness ==
  /\ Did("login")
  /\ out = <<Msg("BadCredentials", <<>>)>>
  /\ io = "none"
  /\ current_user = S1
  /\ IsKey(students, S1)
  /\ GetItem(students, S1).login_count = 1

(***************************************************************************)
(* C9: at process start, load yields an empty Directory when the snapshot  *)
(* is absent, does not parse, or parses to a top-level value that is not   *)
(* an id-to-record mapping, and no fatal error propagates.  Violated by    *)
(* cw.py, which returns whatever json.load returned (here a list).         *)
(***************************************************************************)
C9_LoadOfBadSnapshotIsEmpty ==
  [][(/\ Did("start")'
      /\ faults' = faults
      /\ snapshot.kind \in {"absent", "garbage", "list"})
       => (students' = EmptyDict /\ pc' = "menu")]_vars

(***************************************************************************)
(* C10: when the snapshot write of register, login or delete fails, the    *)
(* failure is what the operation reports: it does not print its success    *)
(* message nor update the session as if the write had succeeded, and the   *)
(* in-memory Directory keeps the mutation.  Violated by student_system.py, *)
(* which prints the save error and then completes the success path.        *)
(***************************************************************************)
C10_FailedWriteIsNotSuccess ==
  [][(io' = "failed" /\ last'.op \in {"register", "login", "delete"})
       => /\ ~Succeeded(out')
          /\ HasMsg(out', "SaveError") \/ HasMsg(out', "UnexpectedError")
          /\ students' # students
          /\ current_user' # None => current_user' = current_user]_vars

(***************************************************************************)
(* C11: no fault terminates the process.  Whatever a menu operation does,  *)
(* a failed snapshot write inside register, login or delete included, the  *)
(* loop comes back to the menu prompt; it ends only through the exit       *)
(* choice or a user interrupt.                                             *)
(***************************************************************************)
C11_LoopEndsOnlyByExitOrInterrupt ==
  [][pc = "menu"
       => \/ pc' = "menu" /\ ~StatusLineRaises'
          \/ last'.op \in {"exit", "interrupt"}]_vars

(***************************************************************************)
(* C12: a user interrupt at any input prompt, the menu's or a handler's,   *)
(* ends the loop through the normal exit path and never as an uncaught     *)
(* error.                                                                  *)
(***************************************************************************)
C12_InterruptExitsCleanly ==
  [][Did("interrupt")' => pc' = "exited"]_vars

(***************************************************************************)
(* C13: save followed by load is the identity on Directories.  Whenever    *)
(* save_data has just written the Directory, load_data of the file gives   *)
(* back a Directory equal to the one in memory: the same ids in the same   *)
(* order with the same field values, a last_login of None included.        *)
(***************************************************************************)
C13_SaveThenLoadIsIdentity ==
  io = "written"
    => LET ld == load_data(variant, snapshot, "ok")
       IN ~ld.raised /\ ld.out = <<>> /\ ld.students = students

\* two records just saved, S2 registered before S1, one never logged in and
\* one logged in
C13_Witness ==
  /\ io = "written"
  /\ Len(students.items) = 2
  /\ students.items[1].id = S2
  /\ students.items[1].rec.last_login = NoneTime
  /\ students.items[2].rec.last_login # NoneTime
  /\ load_data(variant, snapshot, "ok").students = students

(***************************************************************************)
(* C14: starting from a load of any well-formed snapshot (a parseable      *)
(* file holding an object of id -> record), every key of the Directory is  *)
(* in normalized form (trimmed, uppercase) and no two keys are equal       *)
(* case-insensitively.                                                     *)
(***************************************************************************)
C14_KeysNormalizedAndUnique ==
  LET ids == students.items
  IN /\ \A i \in 1..Len(ids) : ids[i].id = upper(strip(ids[i].id))
     /\ \A i, j \in 1..Len(ids) :
           lower(ids[i].id) = lower(ids[j].id) => i = j

(***************************************************************************)
(* C15: list and search are pure.  A view-all or search step leaves the    *)
(* Directory, the snapshot and the session unchanged and writes nothing;   *)
(* a search repeated with the same query right after a search prints the   *)
(* same results.                                                           *)
(***************************************************************************)
C15_ListAndSearchArePure ==
  [][/\ (Did("view_all")' \/ Did("search")') => NothingChanged
     /\ (Did("search") /\ Did("search")'
           /\ last'.args.query = last.args.query) => out' = out]_vars

\* a search that found records while somebody is logged in
C15_Witness ==
  /\ Did("search")
  /\ HasMsg(out, "Found")
  /\ Truthy(current_user)
  /\ Len(students.items) = 2

(***************************************************************************)
(* C16: a register that passes validation adds exactly one record, at the  *)
(* end of the Directory, keyed by the trimmed uppercased id, with          *)
(* login_count 0, no last_login, the title-cased name, the lowercased      *)
(* e-mail and the hash of the password exactly as typed; the records that  *)
(* were there are unchanged and so is the session.                         *)
(***************************************************************************)
C16_ValidRegisterAddsOneRecord ==
  [][(Did("register")' /\ students.shape = "dict"
        /\ ~BreaksARule(students, last'.args))
       => LET a == last'.args
              n == Len(students.items)
          IN /\ students'.shape = "dict"
             /\ Len(students'.items) = n + 1
             /\ SubSeq(students'.items, 1, n) = students.items
             /\ students'.items[n + 1].id = NormalId(a.id)
             /\ students'.items[n + 1].rec =
                  [name |-> title(strip(a.name)),
                   email |-> lower(strip(a.email)),
                   password_hash |-> hash_password(a.password),
                   registered_on |-> a.t,
                   login_count |-> 0,
                   last_login |-> NoneTime]
             /\ current_user' = current_user]_vars

\* register("ada b", "s2", " A@b.io ", "Secret") accepted while S1 is logged
\* in: the record of S1 is followed by "Ada B" <a@b.io> under the key "S2"
C16_Witness ==
  /\ Did("register")
  /\ HasMsg(out, "RegisterSuccess")
  /\ last.args.id = <<115, 50>>
  /\ current_user = <<83, 49>>
  /\ Len(students.items) = 2
  /\ students.items[1].id = <<83, 49>>
  /\ students.items[2].id = <<83, 50>>
  /\ students.items[2].rec.name = <<65, 100, 97, 32, 66>>
  /\ students.items[2].rec.email = <<97, 64, 98, 46, 105, 111>>
  /\ students.items[2].rec.password_hash =
       hash_password(<<83, 101, 99, 114, 101, 116>>)

(***************************************************************************)
(* C17: delete removes a record only when the typed id, trimmed and        *)
(* uppercased, is present and the answer to the confirmation is 'y'.  A    *)
(* delete of an absent id or a declined delete leaves the Directory, the   *)
(* snapshot and the session unchanged; a confirmed delete removes exactly  *)
(* the named record and leaves the other records as they were.             *)
(***************************************************************************)
C17_DeleteOnlyWhenPresentAndConfirmed ==
  [][Did("delete")'
       => LET a == last'.args
          IN IF IsKey(students, a.id) /\ lower(strip(a.confirm)) = <<121>>
             THEN /\ students'.shape = "dict"
                  /\ students'.items =
                       SelectSeq(students.items,
                                 LAMBDA it : it.id # NormalId(a.id))
                  /\ Len(students'.items) = Len(students.items) - 1
             ELSE NothingChanged]_vars

\* delete("s2") answered " Y " with S1 and S2 registered: S1 is what is left
C17_Witness ==
  /\ Did("delete")
  /\ last.args.id = <<115, 50>>
  /\ last.args.confirm = <<32, 89, 32>>
  /\ HasMsg(out, "Deleted")
  /\ Keys(students) = {S1}

(***************************************************************************)
(* C18: while the program runs the session changes only through three      *)
(* transitions: a successful login sets it to the authenticated id, logout *)
(* clears it, and a successful delete of the current user's id clears it.  *)
(* Every other step of the menu (register, list, search, view-profile, a   *)
(* failed login, a declined or not-found delete, a delete of another id,   *)
(* choice 6 or 7 while nobody is logged in) leaves it unchanged.           *)
(***************************************************************************)
C18_SessionChangesOnlyByLoginLogoutDelete ==
  [][(pc = "menu" /\ pc' = "menu")
       => /\ (Did("login")' /\ HasMsg(out', "LoginSuccess"))
               => current_user' = NormalId(last'.args.id)
          /\ Did("logout")' => current_user' = None
          /\ (Did("delete")' /\ HasMsg(out', "Deleted")
                /\ current_user = NormalId(last'.args.id))
               => current_user' = None
          /\ current_user' # current_user
               => \/ Did("login")' /\ HasMsg(out', "LoginSuccess")
                  \/ Did("logout")'
                  \/ /\ Did("delete")' /\ HasMsg(out', "Deleted")
                     /\ current_user = NormalId(last'.args.id)]_vars

\* S2 was deleted while S1 is logged in: S1 is still logged in
C18_Witness ==
  /\ Did("delete")
  /\ HasMsg(out, "Deleted")
  /\ last.args.id = <<115, 50>>
  /\ current_user = S1
  /\ IsKey(students, S1)

\* the items of d whose id or name contains q, compared in lower case
Hits(d, q) ==
  SelectSeq(d.items,
            LAMBDA it : \/ IsSubstring(lower(q), lower(it.id))
                        \/ IsSubstring(lower(q), lower(it.rec.name)))

\* the lines of o are the "Found" lines of the items hits, in their order
ReportsExactly(o, hits) ==
  /\ Len(o) = Len(hits)
  /\ \A k \in 1..Len(hits) : o[k] = Msg("Found", hits[k].id)

(***************************************************************************)
(* C19 as stated: for every query and every Directory, search reports      *)
(* exactly the records whose id or name contains the (trimmed) query       *)
(* case-insensitively, in insertion order, and an empty result and never   *)
(* an error when none matches; for the empty and the whitespace-only query *)
(* too, which every id and name contains.  Refuted: search rejects a query *)
(* that is empty after trimming and reports no record.                     *)
(***************************************************************************)
C19_SearchReportsMatchesForEveryQuery ==
  [][(Did("search")' /\ students.shape = "dict")
       => LET hits == Hits(students, strip(last'.args.query))
          IN IF hits = <<>>
             THEN ~HasMsg(out', "Found") /\ ~HasMsg(out', "UnexpectedError")
             ELSE ReportsExactly(out', hits)]_vars

(***************************************************************************)
(* C19 as the code has it: for every Directory and every query that is not *)
(* empty after trimming, search prints exactly the records whose id or     *)
(* name contains the trimmed query case-insensitively, in insertion order, *)
(* and the no-match message, not an error, when there is none; a query     *)
(* that is empty after trimming is rejected with the empty-query message   *)
(* and no record is reported.                                              *)
(***************************************************************************)
C19_SearchCorrect ==
  [][(Did("search")' /\ students.shape = "dict")
       => LET q == strip(last'.args.query)
              hits == Hits(students, q)
          IN IF q = <<>> THEN out' = <<Msg("EmptyQuery", <<>>)>>
             ELSE IF hits = <<>> THEN out' = <<Msg("NoMatch", <<>>)>>
             ELSE ReportsExactly(out', hits)]_vars

\* search(" DA ") with S2 registered before S1: both names contain "da" and
\* S2 is reported first
C19_Witness ==
  /\ Did("search")
  /\ last.args.query = <<32, 68, 65, 32>>
  /\ out = <<Msg("Found", <<83, 50>>), Msg("Found", <<83, 49>>)>>

\* in every record of d the count is not negative and last_login is None
\* exactly when the count is 0
CountsAndTimesAgree(d) ==
  \A i \in 1..Len(d.items) :
    /\ d.items[i].rec.login_count >= 0
    /\ d.items[i].rec.last_login = NoneTime
         <=> d.items[i].rec.login_count = 0

\* no record of d has a higher count than the record of the same id in d1
NoCountAbove(d, d1) ==
  \A i \in 1..Len(d.items), j \in 1..Len(d1.items) :
    d.items[i].id = d1.items[j].id
      => d.items[i].rec.login_count <= d1.items[j].rec.login_count

\* the process ends and leaves a students.json that holds a Directory
EndsOnDirectory == pc = "menu" /\ pc' # "menu" /\ snapshot'.kind = "dict"

(***************************************************************************)
(* C20 as stated: over the whole lifetime of a record, which spans the     *)
(* runs of the program, login_count is a non-negative integer that never   *)
(* decreases, and last_login is absent exactly when login_count is 0.      *)
(* When the process ends, the record the next run will load must then      *)
(* count at least what the record counted in memory.  Refuted: a login     *)
(* whose write fails is counted in memory only, and the next run starts    *)
(* from the lower count on disk.                                           *)
(***************************************************************************)
C20_LoginCountNeverDecreases ==
  [][/\ CountsAndTimesAgree(students')
     /\ (pc = "menu" /\ pc' = "menu") => NoCountAbove(students, students')
     /\ EndsOnDirectory => NoCountAbove(students, parse(snapshot'))]_vars

(***************************************************************************)
(* C20 as the code has it: in every record login_count is a non-negative   *)
(* integer and last_login is absent exactly when login_count is 0; while   *)
(* the program runs the login_count of a record never decreases.           *)
(***************************************************************************)
C20_LoginCountInOneRun ==
  [][/\ CountsAndTimesAgree(students')
     /\ (pc = "menu" /\ pc' = "menu")
          => NoCountAbove(students, students')]_vars

\* a login has just been counted for S1 while S2 has never logged in
C20_Witness ==
  /\ Did("login")
  /\ IsKey(students, S1) /\ IsKey(students, S2)
  /\ GetItem(students, S1).login_count = 1
  /\ GetItem(students, S1).last_login # NoneTime
  /\ GetItem(students, S2).login_count = 0
  /\ GetItem(students, S2).last_login = NoneTime

\* two handler results leave the same Directory, session and snapshot
SameEffect(a, b) ==
  /\ a.students = b.students
  /\ a.current_user = b.current_user
  /\ a.snapshot = b.snapshot

(***************************************************************************)
(* C21: cw.py and student_system.py are behaviourally equivalent.  From    *)
(* every reachable state, the same input with the same read or write       *)
(* failure takes both variants to the same Directory, session, snapshot    *)
(* and running/terminated status; started from the same snapshot they      *)
(* then agree at every step.                                               *)
(***************************************************************************)
C21_VariantsAgree ==
  /\ pc \in {"off", "exited", "crashed"}
       => \A r \in ReadOutcomes :
            Allowed(r)
              => LET a == load_data("cw", snapshot, r)
                     b == load_data("student_system", snapshot, r)
                 IN a.students = b.students /\ a.raised = b.raised
  /\ AtPrompt
       => /\ \A a \in RegisterInputs, t \in Timestamps, w \in WriteOutcomes :
               Allowed(w)
                 => SameEffect(
                      register("cw", students, current_user, snapshot,
                               a.name, a.id, a.email, a.password, t, w),
                      register("student_system", students, current_user,
                               snapshot, a.name, a.id, a.email, a.password,
                               t, w))
          /\ \A i \in LookupIds, p \in LoginPasswords, t \in Timestamps,
                w \in WriteOutcomes :
               Allowed(w)
                 => SameEffect(
                      login("cw", students, current_user, snapshot, i, p, t, w),
                      login("student_system", students, current_user,
                            snapshot, i, p, t, w))
          /\ \A i \in LookupIds, c \in ConfirmInputs, w \in WriteOutcomes :
               Allowed(w)
                 => SameEffect(
                      delete_student("cw", students, current_user, snapshot,
                                     i, c, w),
                      delete_student("student_system", students,
                                     current_user, snapshot, i, c, w))

\* a process that loads snap without a read error finds a record for id
\* with the digest h
Persisted(snap, id, h) ==
  /\ snap.kind = "dict"
  /\ id \in Keys(parse(snap))
  /\ GetItem(parse(snap), id).password_hash = h

\* the digest stored in memory for id
HashOf(d, id) == GetItem(d, id).password_hash

(***************************************************************************)
(* C22: acknowledged mutations are durable across a restart.  A register   *)
(* that reports success leaves the record with its password hash in the    *)
(* snapshot; a delete that reports success leaves the snapshot without the *)
(* record; a record that is in memory and in the snapshot stays in the     *)
(* snapshot through every step that is not a delete of its id; and a new   *)
(* process that loads the snapshot starts anonymous with every record of   *)
(* the snapshot, hashes unchanged.                                         *)
(***************************************************************************)
C22_AcknowledgedMutationsAreDurable ==
  [][/\ (Did("register")' /\ HasMsg(out', "RegisterSuccess"))
          => Persisted(snapshot', NormalId(last'.args.id),
                       hash_password(last'.args.password))
     /\ (Did("delete")' /\ HasMsg(out', "Deleted"))
          => ~(/\ snapshot'.kind = "dict"
               /\ NormalId(last'.args.id) \in Keys(parse(snapshot')))
     /\ \A id \in Keys(students) :
          (/\ Persisted(snapshot, id, HashOf(students, id))
           /\ ~(Did("delete")' /\ NormalId(last'.args.id) = id))
            => Persisted(snapshot', id, HashOf(students, id))
     /\ Did("start")'
          => /\ current_user' = None
             /\ (pc' = "menu" /\ faults' = faults /\ snapshot.kind = "dict")
                  => \A id \in Keys(parse(snapshot)) :
                       /\ IsKey(students', id)
                       /\ Persisted(snapshot, id, HashOf(students', id))]_vars

====
